---- MODULE Spec2Model ----
(***************************************************************************)
(* johnsnow_dashboard_app.py: a Streamlit script that is re-run from top   *)
(* to bottom on every widget interaction.  One run ("render") reads the    *)
(* sidebar widgets, loads the point tables and the area shapefile through  *)
(* st.cache_data, builds a folium map and hands it to st_folium.           *)
(*                                                                         *)
(* Coordinates are integers; a mean is an exact fraction <<num, den>>.     *)
(***************************************************************************)
EXTENDS Integers, Sequences, FiniteSets, TLC

\* ---------------------------------------------------------------- bounds
MaxDeaths == 2
MaxPumps == 2
MaxPolys == 1

\* ------------------------------------------------------- input universes
\* Rows of the two spreadsheets: numeric columns x and y.  Row values cover
\* in-range coordinates and a value beyond 90 degrees.
DeathRowValues == { [x |-> 2, y |-> 4], [x |-> 91, y |-> 0] }
PumpRowValues == { [x |-> 0, y |-> 0] }

SeqsUpTo(S, n) == UNION { [1..k -> S] : k \in 0..n }

\* The shapefile: a declared CRS (or none) and some polygons, each reduced
\* to one representative vertex and one attribute column.
AreaCrsValues == { "EPSG:4326", "EPSG:27700", "none" }
AreaVertex(crs) == IF crs = "EPSG:4326" THEN <<4, 2>> ELSE <<400, 200>>
AreaFile(crs, n) ==
    [ crs |-> crs,
      columns |-> <<"Id", "geometry">>,
      rows |-> [i \in 1..n |-> [Id |-> i, geometry |-> AreaVertex(crs)]] ]

\* ------------------------------------------------------------- variables
VARIABLES
    show_deaths, show_pumps, show_area, basemap_choice, \* sidebar widgets
    deaths_xlsx, pumps_xlsx, polys_shp,                 \* file contents
    data_ok, area_ok,                                   \* files readable
    cache_load_data, cache_load_area,                   \* st.cache_data
    deaths_gdf, pumps_gdf, area_gdf,                    \* script globals
    center, m, view, metrics,                           \* script globals
    error,                                              \* uncaught exception
    ran,                                                \* bodies run this render
    firstRender,                                        \* first run of the script
    pc                                                  \* position in the script

widgets == <<show_deaths, show_pumps, show_area, basemap_choice>>
files == <<deaths_xlsx, pumps_xlsx, polys_shp>>
status == <<data_ok, area_ok>>
caches == <<cache_load_data, cache_load_area>>
frames == <<deaths_gdf, pumps_gdf, area_gdf>>
vars == <<widgets, files, status, caches, frames, center, m, view, metrics,
          error, ran, firstRender, pc>>

\* ------------------------------------------------------------ arithmetic
Abs(n) == IF n < 0 THEN -n ELSE n

RECURSIVE GCD(_, _)
GCD(a, b) == IF b = 0 THEN a ELSE GCD(b, a % b)

Frac(n, d) == LET g == GCD(Abs(n), d) IN <<n \div g, d \div g>>

RECURSIVE SumOf(_)
SumOf(s) == IF s = <<>> THEN 0 ELSE Head(s) + SumOf(Tail(s))

\* pandas Series.mean(): NaN for an empty series, else sum / count.
NaN == [nan |-> TRUE, val |-> <<0, 1>>]
MeanDividesByOneMore(s) ==
    IF s = <<>> THEN NaN ELSE [nan |-> FALSE, val |-> Frac(SumOf(s), Len(s) + 1)]
Mean(s) ==
    IF s = <<>> THEN NaN ELSE [nan |-> FALSE, val |-> Frac(SumOf(s), Len(s))]

\* ------------------------------------------------------------ the sidebar
BasemapOptions == { "OpenStreetMap", "CartoDB Positron", "Esri WorldImagery" }
UnknownBasemap == "MoonMap"

\* ---------------------------------------------------------- data loading
\* Point(xy) for xy in zip(df["y"], df["x"]): geometry.x is the y column,
\* geometry.y is the x column.
PointOf(row) == [x |-> row.y, y |-> row.x]
ToGeoFrame(df) ==
    [i \in 1..Len(df) |-> [x |-> df[i].x, y |-> df[i].y, geometry |-> PointOf(df[i])]]

Unbound == [bound |-> FALSE, crs |-> "none", columns |-> <<>>, rows |-> <<>>]
Frame(crs, columns, rows) ==
    [bound |-> TRUE, crs |-> crs, columns |-> columns, rows |-> rows]

PointColumns == <<"x", "y", "geometry">>

\* to_crs("EPSG:4326") on a projected vertex (stands for the pyproj
\* transformation; it is not the identity).
Reproject(v) == <<v[1] \div 100, v[2] \div 100>>
ToCrs(rows) == [i \in 1..Len(rows) |-> [rows[i] EXCEPT !.geometry = Reproject(@)]]

EmptyDataCache == [stored |-> FALSE, deaths |-> <<>>, pumps |-> <<>>]
EmptyAreaCache == [stored |-> FALSE, crs |-> "none", columns |-> <<>>, rows |-> <<>>]

\* st.cache_data lookup for a function without arguments.
CacheNeverHits(c) == FALSE
CacheHit(c) == c.stored

\* ------------------------------------------------------------------ map
NoMap == [bound |-> FALSE, location |-> <<NaN, NaN>>, children |-> <<>>]
NoView == [shown |-> FALSE, m |-> NoMap, control |-> <<>>]
NoMetrics == [shown |-> FALSE, deaths |-> 0, pumps |-> 0]

Child(kind, name, src, isLayer, items) ==
    [kind |-> kind, name |-> name, src |-> src, isLayer |-> isLayer, items |-> items]

\* [row.geometry.y, row.geometry.x] for every row
Locations(rows) == [i \in 1..Len(rows) |-> <<rows[i].geometry.y, rows[i].geometry.x>>]

\* GeoDataFrame.to_json(): one feature per row, the non-geometry columns as
\* properties.
ToJson(rows) ==
    [i \in 1..Len(rows) |-> [properties |-> [Id |-> rows[i].Id],
                             geometry |-> rows[i].geometry]]

TooltipFields(columns) == SelectSeq(columns, LAMBDA col : col # "geometry")

\* folium.LayerControl lists the children of the map that are layers
\* (TileLayer, MarkerCluster, GeoJson); a bare Marker is not a layer.
IsLayerChild(c) == c.isLayer
ControlEntries(map) ==
    LET ls == SelectSeq(map.children, IsLayerChild)
    IN  [i \in 1..Len(ls) |-> [name |-> ls[i].name, src |-> ls[i].src]]

\* ------------------------------------------------------------------ Init
Init ==
    /\ show_deaths = TRUE
    /\ show_pumps = TRUE
    /\ show_area = TRUE
    /\ basemap_choice = "OpenStreetMap"
    /\ deaths_xlsx \in SeqsUpTo(DeathRowValues, MaxDeaths)
    /\ pumps_xlsx \in SeqsUpTo(PumpRowValues, MaxPumps)
    /\ \E crs \in AreaCrsValues, n \in 0..MaxPolys : polys_shp = AreaFile(crs, n)
    /\ data_ok \in BOOLEAN
    /\ area_ok \in BOOLEAN
    /\ cache_load_data = EmptyDataCache
    /\ cache_load_area = EmptyAreaCache
    /\ deaths_gdf = Unbound
    /\ pumps_gdf = Unbound
    /\ area_gdf = Unbound
    /\ center = <<NaN, NaN>>
    /\ m = NoMap
    /\ view = NoView
    /\ metrics = NoMetrics
    /\ error = "none"
    /\ ran = {}
    /\ firstRender = TRUE
    /\ pc = "load_data"

\* --------------------------------------------------- starting a new run
\* Streamlit re-executes the script: the globals of the previous run are
\* gone, the caches and the widget values stay.
StartScript ==
    /\ deaths_gdf' = Unbound
    /\ pumps_gdf' = Unbound
    /\ area_gdf' = Unbound
    /\ center' = <<NaN, NaN>>
    /\ m' = NoMap
    /\ view' = NoView
    /\ metrics' = NoMetrics
    /\ error' = "none"
    /\ ran' = {}
    /\ firstRender' = FALSE
    /\ pc' = "load_data"
    /\ UNCHANGED <<files, status, caches>>

ToggleDeaths ==
    /\ pc = "idle"
    /\ show_deaths' = ~show_deaths
    /\ UNCHANGED <<show_pumps, show_area, basemap_choice>>
    /\ StartScript

TogglePumps ==
    /\ pc = "idle"
    /\ show_pumps' = ~show_pumps
    /\ UNCHANGED <<show_deaths, show_area, basemap_choice>>
    /\ StartScript

ToggleArea ==
    /\ pc = "idle"
    /\ show_area' = ~show_area
    /\ UNCHANGED <<show_deaths, show_pumps, basemap_choice>>
    /\ StartScript

SelectBasemap(options) ==
    /\ pc = "idle"
    /\ \E b \in options \ {basemap_choice} : basemap_choice' = b
    /\ UNCHANGED <<show_deaths, show_pumps, show_area>>
    /\ StartScript

Rerun ==
    /\ pc = "idle"
    /\ UNCHANGED widgets
    /\ StartScript

\* The files on disk appear, disappear or get repaired between runs.
DataFilesChange ==
    /\ pc = "idle"
    /\ data_ok' = ~data_ok
    /\ UNCHANGED <<widgets, files, area_ok, caches, frames, center, m, view,
                   metrics, error, ran, firstRender, pc>>

AreaFileChanges ==
    /\ pc = "idle"
    /\ area_ok' = ~area_ok
    /\ UNCHANGED <<widgets, files, data_ok, caches, frames, center, m, view,
                   metrics, error, ran, firstRender, pc>>

\* An uncaught exception ends the run; Streamlit shows the traceback.
Raise(exc) ==
    /\ error' = exc
    /\ pc' = "idle"

\* --------------------------------------------------------- load_data()
LoadDataHit ==
    /\ pc = "load_data"
    /\ CacheHit(cache_load_data)
    /\ deaths_gdf' = Frame("EPSG:4326", PointColumns, cache_load_data.deaths)
    /\ pumps_gdf' = Frame("EPSG:4326", PointColumns, cache_load_data.pumps)
    /\ pc' = "load_area"
    /\ UNCHANGED <<widgets, files, status, caches, area_gdf, center, m, view,
                   metrics, error, ran, firstRender>>

LoadDataMiss ==
    /\ pc = "load_data"
    /\ ~CacheHit(cache_load_data)
    /\ data_ok
    /\ ran' = ran \cup {"load_data"}
    /\ cache_load_data' = [stored |-> TRUE,
                           deaths |-> ToGeoFrame(deaths_xlsx),
                           pumps |-> ToGeoFrame(pumps_xlsx)]
    /\ deaths_gdf' = Frame("EPSG:4326", PointColumns, ToGeoFrame(deaths_xlsx))
    /\ pumps_gdf' = Frame("EPSG:4326", PointColumns, ToGeoFrame(pumps_xlsx))
    /\ pc' = "load_area"
    /\ UNCHANGED <<widgets, files, status, cache_load_area, area_gdf, center, m,
                   view, metrics, error, firstRender>>

\* read_excel raises (missing or malformed workbook, missing column,
\* non-numeric coordinate); nothing is cached.
LoadDataFails ==
    /\ pc = "load_data"
    /\ ~CacheHit(cache_load_data)
    /\ ~data_ok
    /\ ran' = ran \cup {"load_data"}
    /\ Raise("LoadError")
    /\ UNCHANGED <<widgets, files, status, caches, frames, center, m, view,
                   metrics, firstRender>>

\* ------------------------------------------------ load_area_shapefile()
LoadAreaHit ==
    /\ pc = "load_area"
    /\ CacheHit(cache_load_area)
    /\ area_gdf' = Frame(cache_load_area.crs, cache_load_area.columns,
                         cache_load_area.rows)
    /\ pc' = "center"
    /\ UNCHANGED <<widgets, files, status, caches, deaths_gdf, pumps_gdf, center,
                   m, view, metrics, error, ran, firstRender>>

LoadAreaMiss ==
    /\ pc = "load_area"
    /\ ~CacheHit(cache_load_area)
    /\ area_ok
    /\ polys_shp.crs # "none"
    /\ ran' = ran \cup {"load_area_shapefile"}
    /\ LET rows == IF polys_shp.crs # "EPSG:4326"
                   THEN ToCrs(polys_shp.rows) ELSE polys_shp.rows
       IN  /\ cache_load_area' = [stored |-> TRUE, crs |-> "EPSG:4326",
                                  columns |-> polys_shp.columns, rows |-> rows]
           /\ area_gdf' = Frame("EPSG:4326", polys_shp.columns, rows)
    /\ pc' = "center"
    /\ UNCHANGED <<widgets, files, status, cache_load_data, deaths_gdf, pumps_gdf,
                   center, m, view, metrics, error, firstRender>>

\* gpd.read_file raises.
LoadAreaFailsAndIsIgnored ==
    /\ pc = "load_area"
    /\ ~CacheHit(cache_load_area)
    /\ ~area_ok
    /\ ran' = ran \cup {"load_area_shapefile"}
    /\ area_gdf' = Frame("EPSG:4326", <<"geometry">>, <<>>)
    /\ pc' = "center"
    /\ UNCHANGED <<widgets, files, status, caches, deaths_gdf, pumps_gdf, center,
                   m, view, metrics, error, firstRender>>
LoadAreaFails ==
    /\ pc = "load_area"
    /\ ~CacheHit(cache_load_area)
    /\ ~area_ok
    /\ ran' = ran \cup {"load_area_shapefile"}
    /\ Raise("LoadError")
    /\ UNCHANGED <<widgets, files, status, caches, frames, center, m, view,
                   metrics, firstRender>>

\* The file has no CRS: crs != "EPSG:4326" holds and to_crs raises.
LoadAreaProjectionFails ==
    /\ pc = "load_area"
    /\ ~CacheHit(cache_load_area)
    /\ area_ok
    /\ polys_shp.crs = "none"
    /\ ran' = ran \cup {"load_area_shapefile"}
    /\ Raise("ProjectionError")
    /\ UNCHANGED <<widgets, files, status, caches, frames, center, m, view,
                   metrics, firstRender>>

\* ----------------------------------------------------------- map center
Lats(frame) == [i \in 1..Len(frame.rows) |-> frame.rows[i].geometry.y]
Lons(frame) == [i \in 1..Len(frame.rows) |-> frame.rows[i].geometry.x]

CenterOf(frame) == <<Mean(Lats(frame)), Mean(Lons(frame))>>
IsNaN(loc) == loc[1].nan \/ loc[2].nan

MapCenter ==
    /\ pc = "center"
    /\ ~IsNaN(CenterOf(deaths_gdf))
    /\ center' = CenterOf(deaths_gdf)
    /\ m' = [bound |-> TRUE, location |-> CenterOf(deaths_gdf), children |-> <<>>]
    /\ pc' = "basemap"
    /\ UNCHANGED <<widgets, files, status, caches, frames, view, metrics, error,
                   ran, firstRender>>

\* No death rows: both means are NaN, and folium.Map validates its
\* location (validate_location) and raises ValueError on a NaN.
MapCenterNaNRaises ==
    /\ pc = "center"
    /\ IsNaN(CenterOf(deaths_gdf))
    /\ center' = CenterOf(deaths_gdf)
    /\ Raise("ValueError")
    /\ UNCHANGED <<widgets, files, status, caches, frames, m, view, metrics, ran,
                   firstRender>>

\* -------------------------------------------------------------- basemap
\* if / elif / elif without else: any other value adds no tile layer.
BasemapChildren(choice) ==
    IF choice = "OpenStreetMap"
    THEN <<Child("TileLayer", "OpenStreetMap", "basemap", TRUE, <<>>)>>
    ELSE IF choice = "CartoDB Positron"
    THEN <<Child("TileLayer", "CartoDB Positron", "basemap", TRUE, <<>>)>>
    ELSE IF choice = "Esri WorldImagery"
    THEN <<Child("TileLayer", "Esri WorldImagery", "basemap", TRUE, <<>>)>>
    ELSE <<>>

Basemap ==
    /\ pc = "basemap"
    /\ m' = [m EXCEPT !.children = @ \o BasemapChildren(basemap_choice)]
    /\ pc' = "deaths"
    /\ UNCHANGED <<widgets, files, status, caches, frames, center, view, metrics,
                   error, ran, firstRender>>

\* ------------------------------------------------------- overlay layers
AddDeathsAndConsumeRows ==
    /\ pc = "deaths"
    /\ m' = IF show_deaths
            THEN [m EXCEPT !.children = Append(@,
                    Child("MarkerCluster", "Cholera Deaths", "deaths", TRUE,
                          Locations(deaths_gdf.rows)))]
            ELSE m
    /\ deaths_gdf' = IF show_deaths THEN [deaths_gdf EXCEPT !.rows = <<>>]
                     ELSE deaths_gdf
    /\ pc' = "pumps"
    /\ UNCHANGED <<widgets, files, status, caches, pumps_gdf, area_gdf, center,
                   view, metrics, error, ran, firstRender>>
AddDeaths ==
    /\ pc = "deaths"
    /\ m' = IF show_deaths
            THEN [m EXCEPT !.children = Append(@,
                    Child("MarkerCluster", "Cholera Deaths", "deaths", TRUE,
                          Locations(deaths_gdf.rows)))]
            ELSE m
    /\ pc' = "pumps"
    /\ UNCHANGED <<widgets, files, status, caches, frames, center, view, metrics,
                   error, ran, firstRender>>

\* One folium.Marker per pump row, each added to the map itself.
PumpMarkers(rows) ==
    [i \in 1..Len(rows) |->
        Child("Marker", "", "pumps", FALSE, <<Locations(rows)[i]>>)]

AddPumps ==
    /\ pc = "pumps"
    /\ m' = IF show_pumps
            THEN [m EXCEPT !.children = @ \o PumpMarkers(pumps_gdf.rows)]
            ELSE m
    /\ pc' = "area"
    /\ UNCHANGED <<widgets, files, status, caches, frames, center, view, metrics,
                   error, ran, firstRender>>

AddArea ==
    /\ pc = "area"
    /\ m' = IF show_area
            THEN [m EXCEPT !.children = Append(@,
                    Child("GeoJson", "Cholera Area Polygons", "areas", TRUE,
                          [features |-> ToJson(area_gdf.rows),
                           tooltip |-> TooltipFields(area_gdf.columns)]))]
            ELSE m
    /\ pc' = "control"
    /\ UNCHANGED <<widgets, files, status, caches, frames, center, view, metrics,
                   error, ran, firstRender>>

\* ---------------------------------------------- layer control, display
LayerControl ==
    /\ pc = "control"
    /\ m' = [m EXCEPT !.children = Append(@,
                Child("LayerControl", "", "control", FALSE, <<>>))]
    /\ pc' = "display"
    /\ UNCHANGED <<widgets, files, status, caches, frames, center, view, metrics,
                   error, ran, firstRender>>

Display ==
    /\ pc = "display"
    /\ view' = [shown |-> TRUE, m |-> m, control |-> ControlEntries(m)]
    /\ pc' = "summary"
    /\ UNCHANGED <<widgets, files, status, caches, frames, center, m, metrics,
                   error, ran, firstRender>>

Summary ==
    /\ pc = "summary"
    /\ metrics' = [shown |-> TRUE, deaths |-> Len(deaths_gdf.rows),
                   pumps |-> Len(pumps_gdf.rows)]
    /\ pc' = "idle"
    /\ UNCHANGED <<widgets, files, status, caches, frames, center, m, view,
                   error, ran, firstRender>>

\* ------------------------------------------------------- specifications
Render ==
    \/ LoadDataHit
    \/ LoadDataMiss
    \/ LoadDataFails
    \/ LoadAreaHit
    \/ LoadAreaMiss
    \/ LoadAreaFails
    \/ LoadAreaProjectionFails
    \/ MapCenter
    \/ MapCenterNaNRaises
    \/ Basemap
    \/ AddDeaths
    \/ AddPumps
    \/ AddArea
    \/ LayerControl
    \/ Display
    \/ Summary

Interact ==
    \/ ToggleDeaths
    \/ TogglePumps
    \/ ToggleArea
    \/ Rerun
    \/ DataFilesChange
    \/ AreaFileChanges

Next ==
    \/ Render
    \/ Interact
    \/ SelectBasemap(BasemapOptions)

Spec == Init /\ [][Next]_vars

\* The map composer fed with any basemap string, the enumerated ones and
\* one that is not enumerated.
NextAnyBasemap ==
    \/ Render
    \/ Interact
    \/ SelectBasemap(BasemapOptions \cup {UnknownBasemap})

SpecAnyBasemap == Init /\ [][NextAnyBasemap]_vars

\* ------------------------------------------------------------ properties
OverlayNames == <<"deaths", "pumps", "areas">>
Enabled(l) ==
    IF l = "deaths" THEN show_deaths
    ELSE IF l = "pumps" THEN show_pumps
    ELSE show_area
IsOverlay(c) == c.src \in {"deaths", "pumps", "areas"}
OverlaySrcs(map) ==
    LET os == SelectSeq(map.children, IsOverlay)
    IN  [i \in 1..Len(os) |-> os[i].src]
HasBasemap(map) == \E i \in 1..Len(map.children) : map.children[i].kind = "TileLayer"
HasControl(map) == \E i \in 1..Len(map.children) : map.children[i].kind = "LayerControl"
HasEntry(l) == \E i \in 1..Len(view.control) : view.control[i].src = l
ChildrenOf(map, l) == SelectSeq(map.children, LAMBDA c : c.src = l)

\* val = <<num, den>> is the exact quotient total / count
IsQuotient(val, total, count) == val[2] > 0 /\ val[1] * count = total * val[2]
IsMeanOf(mean, s) ==
    IF s = <<>> THEN mean.nan
    ELSE ~mean.nan /\ IsQuotient(mean.val, SumOf(s), Len(s))

\* C1: in the displayed map the overlay children are exactly the enabled
\* ones of deaths, pumps, areas, each added once, in that order.
C1_LayersOnceInOrder ==
    view.shown => OverlaySrcs(view.m) = SelectSeq(OverlayNames, Enabled)

\* C2 as stated: the center of the map is the mean over the points of the
\* enabled point layers (deaths and pumps together, or the one enabled).
EnabledLats ==
    (IF show_deaths THEN Lats(deaths_gdf) ELSE <<>>)
        \o (IF show_pumps THEN Lats(pumps_gdf) ELSE <<>>)
EnabledLons ==
    (IF show_deaths THEN Lons(deaths_gdf) ELSE <<>>)
        \o (IF show_pumps THEN Lons(pumps_gdf) ELSE <<>>)
C2_CenterIsMeanOfEnabled ==
    (m.bound /\ EnabledLats # <<>>) =>
        /\ IsMeanOf(m.location[1], EnabledLats)
        /\ IsMeanOf(m.location[2], EnabledLons)

\* C2 amended: the center of every map that is built is the mean latitude
\* and the mean longitude of the death points, whatever the toggles.
C2_CenterIsMeanOfDeaths ==
    m.bound =>
        /\ deaths_gdf.rows # <<>>
        /\ IsMeanOf(m.location[1], Lats(deaths_gdf))
        /\ IsMeanOf(m.location[2], Lons(deaths_gdf))
        /\ center = m.location

C2_Witness ==
    /\ view.shown
    /\ ~show_deaths
    /\ show_pumps
    /\ pumps_gdf.rows # <<>>
    /\ deaths_gdf.rows # <<>>
    /\ ~IsMeanOf(view.m.location[1], Lats(pumps_gdf))

C4_NoLayerRenderIsValid ==
    (~show_deaths /\ ~show_pumps /\ ~show_area /\ area_gdf.bound) =>
        /\ error = "none"
        /\ pc = "idle" =>
              /\ view.shown
              /\ HasBasemap(view.m)
              /\ HasControl(view.m)
              /\ OverlaySrcs(view.m) = <<>>
              /\ ~IsNaN(view.m.location)
              /\ view.m.location = CenterOf([rows |-> cache_load_data.deaths])

\* C5: with show_deaths on and an empty deaths table the run raises nothing
\* and ends with a displayed map that has a finite center and an empty
\* deaths layer.
C5_EmptyLayerRenders ==
    (show_deaths /\ area_gdf.bound /\ deaths_gdf.rows = <<>>) =>
        /\ error = "none"
        /\ pc = "idle" =>
              /\ view.shown
              /\ ~IsNaN(view.m.location)
              /\ Len(ChildrenOf(view.m, "deaths")) = 1
              /\ ChildrenOf(view.m, "deaths")[1].items = <<>>

\* C6: in a displayed view each of deaths, pumps and areas has an entry in
\* the layer control exactly when its toggle is on.
C6_ControlListsEnabledLayers ==
    view.shown =>
        \A l \in {"deaths", "pumps", "areas"} : HasEntry(l) <=> Enabled(l)

\* C7: a run in which a load or the reprojection failed builds and displays
\* no map; a displayed map rests on successfully loaded sources and holds
\* every enabled layer with all the loaded records.
C7_NoPartialMapOnLoadFailure ==
    /\ error \in {"LoadError", "ProjectionError"} => (~m.bound /\ ~view.shown)
    /\ view.shown =>
        /\ cache_load_data.stored
        /\ cache_load_area.stored
        /\ show_deaths =>
              /\ Len(ChildrenOf(view.m, "deaths")) = 1
              /\ ChildrenOf(view.m, "deaths")[1].items
                    = Locations(cache_load_data.deaths)
        /\ show_pumps =>
              Len(ChildrenOf(view.m, "pumps")) = Len(cache_load_data.pumps)
        /\ show_area =>
              /\ Len(ChildrenOf(view.m, "areas")) = 1
              /\ ChildrenOf(view.m, "areas")[1].items.features
                    = ToJson(cache_load_area.rows)

C7_Witness ==
    /\ pc = "idle"
    /\ error = "LoadError"
    /\ ~show_area
    /\ cache_load_data.stored
    /\ "load_area_shapefile" \in ran

\* C8 as stated: the loader bodies run in the first render only.
C8_BodiesRunOnlyInFirstRender ==
    ~firstRender => ran = {}

\* C8 amended: once a loader has completed, no later step runs its body
\* again and its cache entry never changes; the renders after that reuse
\* the cached frames (a loader that raised is run again by the next render).
C8_CachedLoaderNeverRerun ==
    [][ /\ cache_load_data.stored =>
              /\ cache_load_data' = cache_load_data
              /\ "load_data" \in ran' => "load_data" \in ran
        /\ cache_load_area.stored =>
              /\ cache_load_area' = cache_load_area
              /\ "load_area_shapefile" \in ran' => "load_area_shapefile" \in ran
      ]_vars

C8_Witness ==
    /\ ~firstRender
    /\ view.shown
    /\ ran = {}
    /\ deaths_gdf.rows = cache_load_data.deaths
    /\ deaths_gdf.rows # <<>>

\* C9: every loaded point record and every marker has a latitude within
\* [-90, 90] and a longitude within [-180, 180].
InRange(lat, lon) == lat >= -90 /\ lat <= 90 /\ lon >= -180 /\ lon <= 180
RowsInRange(rows) ==
    \A i \in 1..Len(rows) : InRange(rows[i].geometry.y, rows[i].geometry.x)
MarkersInRange(map) ==
    \A i \in 1..Len(map.children) :
        map.children[i].src \in {"deaths", "pumps"} =>
            \A j \in 1..Len(map.children[i].items) :
                InRange(map.children[i].items[j][1], map.children[i].items[j][2])
C9_CoordinatesInRange ==
    /\ RowsInRange(cache_load_data.deaths)
    /\ RowsInRange(cache_load_data.pumps)
    /\ RowsInRange(deaths_gdf.rows)
    /\ RowsInRange(pumps_gdf.rows)
    /\ MarkersInRange(m)

\* C10: the frames of a run stay what the loaders returned: no step after
\* the loads changes deaths_gdf, pumps_gdf or area_gdf, and at every point
\* of every render they equal the cached records.
C10_DatasetNeverMutated ==
    [][ /\ (deaths_gdf.bound /\ deaths_gdf'.bound) => deaths_gdf' = deaths_gdf
        /\ (pumps_gdf.bound /\ pumps_gdf'.bound) => pumps_gdf' = pumps_gdf
        /\ (area_gdf.bound /\ area_gdf'.bound) => area_gdf' = area_gdf
        /\ deaths_gdf'.bound => deaths_gdf'.rows = cache_load_data'.deaths
        /\ pumps_gdf'.bound => pumps_gdf'.rows = cache_load_data'.pumps
        /\ area_gdf'.bound => area_gdf'.rows = cache_load_area'.rows
      ]_vars

C10_Witness ==
    /\ view.shown
    /\ ~firstRender
    /\ show_deaths /\ show_pumps /\ show_area
    /\ deaths_gdf.rows # <<>>
    /\ pumps_gdf.rows # <<>>
    /\ area_gdf.rows # <<>>
    /\ deaths_gdf.rows = ToGeoFrame(deaths_xlsx)

====
